---- MODULE Spec2Model ----
(***************************************************************************)
(* A model of the Page component of src/src/app/page.tsx: the orbital      *)
(* phase, the play state, the view controls, the animation loop, the       *)
(* mount/unmount lifecycle and the readouts computed from the phase.       *)
(* The file holds two variants of the component: the                       *)
(* floating-panel variant (lines 1-669, "panel") and the dashboard-card    *)
(* variant (lines 671-1179, "dashboard").                                  *)
(*                                                                         *)
(* Numbers.  The phase is a float in [0,1]; it is modelled on a grid of    *)
(* PhaseRes units per orbit, so 1.0 is PhaseRes and 0.25 is QuarterRes.    *)
(* The frame delta is modelled in whole time quanta of 0.02 s, so the      *)
(* sync intervals 0.06 s and 0.08 s are 3 and 4 quanta.  A declination is  *)
(* an IEEE-754 double; it is kept as a pair [hi, lo] that stands for       *)
(* hi * 10^-6 + lo * 10^-15 degrees, so that its sign, its being zero and  *)
(* differences of a few units in the last place are all preserved.         *)
(*                                                                         *)
(* Scheduling.  Everything runs on one thread.  The App Router files       *)
(* ("use client", layout.tsx exporting Metadata) need React 18 or later:   *)
(*  - an update made in a discrete DOM event handler (click, change) is    *)
(*    rendered, committed and its passive effects are run before the       *)
(*    handler's task ends, so a user action is one atomic step;            *)
(*  - an update made inside a requestAnimationFrame callback is only       *)
(*    queued: React renders it in a later task (RenderQueued) and runs     *)
(*    the passive effects of that commit in a still later task             *)
(*    (RunEffects); animation ticks may run in between;                    *)
(*  - passive effects still pending are run before any new render.         *)
(***************************************************************************)
EXTENDS Integers, FiniteSets, Sequences, TLC

VARIABLES
    variant,        \* which of the two Page components is running
    lifecycle,      \* "fresh" | "live" | "inert" | "unmounted"
    phase,          \* useState phase
    isPlaying,      \* useState isPlaying
    orbitPhaseRef,  \* orbitPhaseRef.current
    uiSyncRef,      \* uiSyncRef.current, in time quanta
    view,           \* useState heatVisible, heatOpacity, showClouds,
                    \* showOrbit, spinRate
    controlsRef,    \* controlsRef.current (the view-control snapshot)
    scene,          \* what the loop writes into the three.js scene: the
                    \* shader uniforms heatEnabled and heatOpacity,
                    \* clouds.visible, orbitLine.visible
    queuedPhase,    \* {p}: a tick's setPhase(p) React has not rendered; else {}
    effectPending,  \* the [phase] effect of a tick's commit has not run yet
    frameId,        \* the closure variable frameId of the mount effect
    pendingFrames,  \* animation frame requests the browser still holds
    held,           \* resources acquired by the mount effect and not released
    cleanupInstalled, \* the mount effect returned its cleanup function
    containerSize,  \* clientWidth x clientHeight of the mount element
    rendererSize,   \* size last given to renderer.setSize
    cameraAspect,   \* camera.aspect (as the size it was computed from)
    touchedDisposed,\* the renderer was used after renderer.dispose()
    lastOp,         \* history: the operation that produced this state and
                    \* its input (slider value, season index, frame delta)
    playChangedBy,  \* history: the user action that last changed the play state
    probe,          \* the readouts (stats) computed for two phases in one
                    \* time zone, and those inputs
    frame,          \* the frame rendered by the step that led to this
                    \* state (NoFrame if it rendered none): the number of
                    \* renderer.render calls, the phase the planet was
                    \* placed from, the planet's world position, the
                    \* sunDirection uniform, the rotation added to the planet
    sincePush,      \* history: the frame deltas summed since the last
                    \* setPhase of a tick
    pushed          \* the step that led to this state was a tick that
                    \* called setPhase

vars == << variant, lifecycle, phase, isPlaying, orbitPhaseRef, uiSyncRef,
           controlsRef, queuedPhase, effectPending, frameId, pendingFrames,
           held, cleanupInstalled, containerSize, rendererSize, cameraAspect,
           touchedDisposed, lastOp, playChangedBy, view, scene, probe, frame,
           sincePush, pushed >>

----------------------------------------------------------------------------
(* Bounds of the model *)

\* grid units per quarter orbit
QuarterRes == 2
\* largest frame delta of one tick, in time quanta
MaxDelta == 2

(* Program constants *)

\* useRef(0.18) / useState(0.18), in hundredths of an orbit
InitPhasePercent == 18

PhaseRes == 4 * QuarterRes
InitPhase == (InitPhasePercent * PhaseRes) \div 100
Variants == {"panel", "dashboard"}
Deltas == 0 .. MaxDelta
\* a slider whose max lies one step past 1
SliderStopsPastMax == 0 .. (PhaseRes + 1)

\* <input type="range" min={0} max={1}> / <Slider min={0} max={1}>: both end
\* stops are slider values
SliderStops == 0 .. PhaseRes
Sizes == {"narrow", "wide"}

\* delta * 0.022 (panel) and delta * 0.025 (dashboard), in grid units per
\* time quantum: the two rates differ by less than a grid unit, and the
\* clock is compressed so that one quantum advances the phase by one unit
ANGULAR_RATE(v) == 1
\* uiSyncRef.current > 0.06 (panel), > 0.08 (dashboard), in quanta of 0.02 s
SYNC_INTERVAL(v) == IF v = "panel" THEN 3 ELSE 4

SEASON_DATA ==
    << [name |-> "Vernal Equinox",   north |-> "Spring", south |-> "Autumn"],
       [name |-> "Summer Solstice",  north |-> "Summer", south |-> "Winter"],
       [name |-> "Autumnal Equinox", north |-> "Autumn", south |-> "Spring"],
       [name |-> "Winter Solstice",  north |-> "Winter", south |-> "Summer"] >>

\* Math.floor(phase * 4), without the two modulo operations
getSeasonIndexNoWrap(p) == (p * 4) \div PhaseRes

\* Math.round(angle) % 4 in place of Math.floor(angle) % 4
getSeasonIndexRounded(p) ==
    ((2 * (p % PhaseRes) * 4 + PhaseRes) \div (2 * PhaseRes)) % 4

\* an index that gives a quadrant boundary to the quadrant that ends there
getSeasonIndexBoundaryLow(p) ==
    LET angle == (p % PhaseRes) * 4
    IN  IF angle > 0 /\ angle % PhaseRes = 0
          THEN angle \div PhaseRes - 1
          ELSE (angle \div PhaseRes) % 4

\* const angle = (phase % 1) * 4; return Math.floor(angle) % 4;
getSeasonIndex(p) == (((p % PhaseRes) * 4) \div PhaseRes) % 4

\* the advance without % 1
AdvancePhaseNoWrap(p, d, v) == p + d * ANGULAR_RATE(v)

\* orbitPhaseRef.current = (orbitPhaseRef.current + delta * rate) % 1
AdvancePhase(p, d, v) == (p + d * ANGULAR_RATE(v)) % PhaseRes

\* what the mount effect acquires: the WebGLRenderer, its canvas appended to
\* the container, the window resize listener, the OrbitControls listeners on
\* the canvas, the six loaded textures, the materials and the geometries
Resources == {"renderer", "canvas", "resizeListener", "controlsListeners",
              "textures", "materials", "geometries"}
\* a cleanup that leaves the resize listener registered
CleanupKeepsListener == {"renderer", "canvas"}

\* what the mount effect's cleanup releases: removeEventListener("resize"),
\* renderer.dispose(), removeChild(renderer.domElement)
CleanupReleases == {"resizeListener", "renderer", "canvas"}

\* requestAnimationFrame returns a handle that no live request carries and
\* that differs from the handle stored last
FreshFrame(pending, stored) ==
    LET used == pending \cup {stored}
    IN  CHOOSE i \in 1 .. (Cardinality(used) + 1) : i \notin used

Op(name, arg) == [name |-> name, arg |-> arg]

----------------------------------------------------------------------------
(* View controls and the scene *)

\* useState(0.85) / heatOpacity: 0.85, in steps of the heat slider (0.05)
InitHeatOpacity == 17

\* <input type="range" min={0} max={1} step={0.05}> / <Slider min={0}
\* max={1} step={0.05}>: the two end stops and the default value
HeatOpacityStops == {0, InitHeatOpacity, 20}

\* useState(true), useState(0.85), useState(true), useState(true),
\* useState(1)
InitView ==
    [heatVisible |-> TRUE, heatOpacity |-> InitHeatOpacity,
     showClouds |-> TRUE, showOrbit |-> TRUE, spinRate |-> 1]

\* useRef({ heatVisible: true, heatOpacity: 0.85, showClouds: true,
\* showOrbit: true, spinRate: 1, isPlaying: true })
InitControls ==
    [heatVisible |-> TRUE, heatOpacity |-> InitHeatOpacity,
     showClouds |-> TRUE, showOrbit |-> TRUE, spinRate |-> 1,
     isPlaying |-> TRUE]

\* a snapshot whose showClouds field follows the orbit toggle
SnapshotCrossed(v, playing) ==
    [heatVisible |-> v.heatVisible, heatOpacity |-> v.heatOpacity,
     showClouds |-> v.showOrbit, showOrbit |-> v.showOrbit,
     spinRate |-> v.spinRate, isPlaying |-> playing]

\* what each snapshot effect stores: controlsRef.current.x = x
Snapshot(v, playing) ==
    [heatVisible |-> v.heatVisible, heatOpacity |-> v.heatOpacity,
     showClouds |-> v.showClouds, showOrbit |-> v.showOrbit,
     spinRate |-> v.spinRate, isPlaying |-> playing]

\* before the mount effect has built a scene
NoScene ==
    [heatEnabled |-> 0, heatOpacity |-> 0,
     cloudsVisible |-> FALSE, orbitVisible |-> FALSE]

\* the scene as the mount effect builds it: earthUniforms is initialised
\* from the snapshot, a new Mesh or Line is visible
SceneAtMount(snap) ==
    [heatEnabled |-> IF snap.heatVisible THEN 1 ELSE 0,
     heatOpacity |-> snap.heatOpacity,
     cloudsVisible |-> TRUE, orbitVisible |-> TRUE]

\* a loop that enables the heat overlay only for a positive opacity
SceneFromSnapshotGated(snap) ==
    [heatEnabled |-> IF snap.heatVisible /\ snap.heatOpacity > 0
                       THEN 1 ELSE 0,
     heatOpacity |-> snap.heatOpacity,
     cloudsVisible |-> snap.showClouds,
     orbitVisible |-> snap.showOrbit]

\* what animate writes into the scene on every tick:
\*   if (controlsRef.current.showOrbit !== orbitLine.visible)
\*       orbitLine.visible = controlsRef.current.showOrbit;
\*   clouds.visible = controlsRef.current.showClouds;
\*   earthUniforms.heatEnabled.value = controlsRef.current.heatVisible ? 1.0 : 0.0;
\*   earthUniforms.heatOpacity.value = controlsRef.current.heatOpacity;
SceneFromSnapshot(snap) ==
    [heatEnabled |-> IF snap.heatVisible THEN 1 ELSE 0,
     heatOpacity |-> snap.heatOpacity,
     cloudsVisible |-> snap.showClouds,
     orbitVisible |-> snap.showOrbit]

----------------------------------------------------------------------------
(* The rendered frame *)

\* a push that is due as soon as the accumulated time reaches the interval
ShouldPushAtInterval(acc, v) == acc >= SYNC_INTERVAL(v)

\* if (uiSyncRef.current > 0.06) / if (uiSyncRef.current > 0.08)
ShouldPush(acc, v) == acc > SYNC_INTERVAL(v)

\* Positions are vectors [x, z] in the orbital plane (y is 0 for all of
\* them), in units of 0.005 scene units.
Vec(x, z) == [x |-> x, z |-> z]
VecAdd(u, w) == Vec(u.x + w.x, u.z + w.z)
\* new THREE.Vector3().subVectors(u, w)
VecSub(u, w) == Vec(u.x - w.x, u.z - w.z)

\* 100 * sin(2 * PI * j / 24), rounded, for j = 0 .. 24, entry j + 1
SinTable ==
    << 0, 26, 50, 71, 87, 97, 100, 97, 87, 71, 50, 26, 0,
       -26, -50, -71, -87, -97, -100, -97, -87, -71, -50, -26, 0 >>

\* the grid phase p as an angle of j / 24 turns (the grid divides 24)
AngleIndex(p) == (p * (Len(SinTable) - 1)) \div PhaseRes
\* 100 * Math.sin(phase * Math.PI * 2)
OrbitSin(p) == SinTable[(AngleIndex(p) % (Len(SinTable) - 1)) + 1]
\* 100 * Math.cos(phase * Math.PI * 2)
OrbitCos(p) ==
    SinTable[((AngleIndex(p) + ((Len(SinTable) - 1) \div 4))
                 % (Len(SinTable) - 1)) + 1]

\* const orbitRadius = 14 (panel), 16 (dashboard), in half scene units
orbitRadius(v) == IF v = "panel" THEN 28 ELSE 32

\* system.position: the origin (panel); system.position.x = -3.5
\* (dashboard)
SystemPosition(v) == IF v = "panel" THEN Vec(0, 0) ELSE Vec(-700, 0)

\* sun.position.set(0, 0, 0): the sun's position inside the system group
SunLocal == Vec(0, 0)

\* the sun's position in world space: sun is a child of system
SunWorld(v) == VecAdd(SystemPosition(v), SunLocal)

\* updateOrbitPosition: earthGroup.position.set(Math.sin(angle) *
\* orbitRadius, 0, -Math.cos(angle) * orbitRadius), angle = phase * 2 * PI
EarthLocal(v, p) ==
    Vec(OrbitSin(p) * orbitRadius(v), -OrbitCos(p) * orbitRadius(v))

\* earth.getWorldPosition(...): earth sits at the origin of earthTilt,
\* earthTilt at the origin of earthGroup, earthGroup is a child of system
EarthWorld(v, p) == VecAdd(SystemPosition(v), EarthLocal(v, p))

\* subVectors(sun.position, earthPositionWorld).normalize(): the vector is
\* kept before normalize(), which only scales it to length 1
SunDirWorld(v, p) == VecSub(SunLocal, EarthWorld(v, p))

\* u and w point the same way: normalize() gives the same unit vector
SameDirection(u, w) ==
    /\ u.x * w.z - u.z * w.x = 0
    /\ u.x * w.x + u.z * w.z > 0

\* earth.rotation.y += delta * 1.2 * spinRate (panel), delta * 1.5 *
\* spinRate (dashboard): the base rate, in tenths of a radian per second
EARTH_SPIN_RATE(v) == IF v = "panel" THEN 12 ELSE 15

\* a rotation that stands still while the orbit is paused
EarthSpinWhilePlaying(v, d, snap) ==
    IF snap.isPlaying THEN d * EARTH_SPIN_RATE(v) * snap.spinRate ELSE 0

\* what one tick adds to earth.rotation.y
EarthSpin(v, d, snap) == d * EARTH_SPIN_RATE(v) * snap.spinRate

\* a step that renders no frame
NoFrame ==
    [renders |-> 0, planetPhase |-> 0, earthWorld |-> Vec(0, 0),
     sunDirection |-> Vec(0, 0), spun |-> 0]

\* a tick that places the planet before it advances the phase
FrameOfTickStale(v, before, after, d, snap) ==
    [renders |-> 1, planetPhase |-> before,
     earthWorld |-> EarthWorld(v, before),
     sunDirection |-> SunDirWorld(v, before),
     spun |-> EarthSpin(v, d, snap)]

\* animate: updateOrbitPosition() from the phase just advanced, the
\* rotation, the sunDirection uniform, then renderer.render(scene, camera)
FrameOfTick(v, before, after, d, snap) ==
    [renders |-> 1, planetPhase |-> after,
     earthWorld |-> EarthWorld(v, after),
     sunDirection |-> SunDirWorld(v, after),
     spun |-> EarthSpin(v, d, snap)]

----------------------------------------------------------------------------
(* The readouts computed from the phase *)

\* hi * 10^-6 + lo * 10^-15 degrees
Num(h, l) == [hi |-> h, lo |-> l]
Zero == Num(0, 0)
Neg(x) == Num(-x.hi, -x.lo)
\* x < y
Less(x, y) == x.hi < y.hi \/ (x.hi = y.hi /\ x.lo < y.lo)
\* |x - y| <= 10^-12 degrees
WithinRounding(x, y) == x.hi = y.hi /\ (x.lo - y.lo) \in -1000 .. 1000

\* radToDeg(OBLIQUITY), OBLIQUITY = degToRad(23.44): the double nearest
\* 23.44, which is 23.440000000000001278...
AXIAL_TILT == Num(23440000, 1)

\* The IEEE-754 double value of
\*   radToDeg(OBLIQUITY * Math.sin(phase * 2 * Math.PI))
\* for phase = j / 24, j = 0 .. 24, entry j + 1 (degToRad(x) = x * (PI /
\* 180), radToDeg(x) = x * (180 / PI), every operation rounded to nearest).
\* Math.sin of the double 2 * 0.5 * PI is 1.22e-16 and not 0, so the value
\* at phase 0.5 is 2.87e-15; at phase 1 it is -5.74e-15.
SubsolarLatitudeTable ==
    << Num(0, 0),
       Num(6066718, 417203087),   Num(11720000, -1),
       Num(16574583, -48987324),  Num(20299635, 464707240),
       Num(22641301, 368215764),  Num(23440000, 1),
       Num(22641301, 368215764),  Num(20299635, 464707244),
       Num(16574583, -48987324),  Num(11720000, -1),
       Num(6066718, 417203093),   Num(0, 3),
       Num(-6066718, -417203078), Num(-11720000, -4),
       Num(-16574583, 48987324),  Num(-20299635, -464707240),
       Num(-22641301, -368215764), Num(-23440000, -1),
       Num(-22641301, -368215768), Num(-20299635, -464707240),
       Num(-16574583, 48987320),  Num(-11720000, -11),
       Num(-6066718, -417203085), Num(0, -6) >>

\* the grid phase p as an index into the table (the grid divides 24)
TableIndex(p) == (p * (Len(SubsolarLatitudeTable) - 1)) \div PhaseRes + 1

\* a declination that follows the cosine of the orbital angle
subsolarLatitudeCosine(p) ==
    SubsolarLatitudeTable[TableIndex((p + QuarterRes) % PhaseRes)]

\* a declination that is the magnitude of the sine term
subsolarLatitudeMagnitude(p) ==
    LET x == SubsolarLatitudeTable[TableIndex(p)]
    IN  IF Less(x, Zero) THEN Neg(x) ELSE x

\* function subsolarLatitude(phase)
subsolarLatitude(p) == SubsolarLatitudeTable[TableIndex(p)]

\* the three hemisphere texts of each variant's stats
HemisphereNames(v) ==
    IF v = "panel"
      THEN [north |-> "Northern", south |-> "Southern",
            equator |-> "Equator"]
      ELSE [north |-> "Sun over Northern Hemisphere",
            south |-> "Sun over Southern Hemisphere",
            equator |-> "Directly over equator"]

\* a classification that counts a zero declination as northern
hemisphereZeroNorth(v, decl) ==
    IF ~Less(decl, Zero) THEN HemisphereNames(v).north
    ELSE HemisphereNames(v).south

\* hemisphere: decl > 0 ? "Northern" : decl < 0 ? "Southern" : "Equator"
hemisphere(v, decl) ==
    IF Less(Zero, decl) THEN HemisphereNames(v).north
    ELSE IF Less(decl, Zero) THEN HemisphereNames(v).south
    ELSE HemisphereNames(v).equator

\* the four texts seasonLabel returns, in the order of its branches
SEASON_LABELS ==
    << "Northern Spring / Southern Autumn",
       "Northern Summer / Southern Winter",
       "Northern Autumn / Southern Spring",
       "Northern Winter / Southern Summer" >>

\* a seasonLabel whose ranges are open below and closed above
seasonLabelBoundaryLow(p) ==
    LET angle == (p % PhaseRes) * 4
    IN  IF angle <= PhaseRes THEN SEASON_LABELS[1]
        ELSE IF angle <= 2 * PhaseRes THEN SEASON_LABELS[2]
        ELSE IF angle <= 3 * PhaseRes THEN SEASON_LABELS[3]
        ELSE SEASON_LABELS[4]

\* function seasonLabel(phase), dashboard variant.  angle is kept in units
\* of (PI / 2) / PhaseRes; the doubles 0.25 * 2 * PI, 0.5 * 2 * PI and
\* 0.75 * 2 * PI equal PI / 2, PI and (3 * PI) / 2 exactly
seasonLabel(p) ==
    LET angle == (p % PhaseRes) * 4
    IN  IF angle >= 0 /\ angle < PhaseRes THEN SEASON_LABELS[1]
        ELSE IF angle >= PhaseRes /\ angle < 2 * PhaseRes
               THEN SEASON_LABELS[2]
        ELSE IF angle >= 2 * PhaseRes /\ angle < 3 * PhaseRes
               THEN SEASON_LABELS[3]
        ELSE SEASON_LABELS[4]

\* the quadrant a variant's season readout stands for: seasonIdx in the
\* panel variant, the branch of seasonLabel in the dashboard variant
SeasonQuadrant(v, p) ==
    IF v = "panel" THEN getSeasonIndex(p)
    ELSE (CHOOSE k \in 1 .. 4 : SEASON_LABELS[k] = seasonLabel(p)) - 1

\* the season text a variant shows: SEASON_DATA[seasonIdx].name or
\* seasonLabel(phase)
SeasonText(v, p) ==
    IF v = "panel" THEN SEASON_DATA[getSeasonIndex(p) + 1].name
    ELSE seasonLabel(p)

\* Date.UTC(2025, 2, 20), in hours since 2025-01-01T00:00Z
START_EPOCH == (31 + 28 + 19) * 24
\* 1000 * 60 * 60 * 24 * 365, in hours
YEAR_MS == 24 * 365

\* The UTC offsets, in hours, of the zone the browser runs in:
\* toLocaleDateString and getDate are called without a timeZone option and
\* use the local zone
TimeZones == {-5, 0, 9}

\* day of the year (from 0) on which each month starts; 2025 and 2026 are
\* not leap years
MonthStarts == << 0, 31, 59, 90, 120, 151, 181, 212, 243, 273, 304, 334 >>

\* const ms = START_EPOCH + phase * YEAR_MS
Timestamp(p) == START_EPOCH + (p * YEAR_MS) \div PhaseRes

\* new Date(ms) formatted by toLocaleDateString("en-US", { month, day }) /
\* getDate(): the month and the day of the month in the local zone
dateLabel(p, tz) ==
    LET local == Timestamp(p) + tz
        doy   == (local \div 24) % 365
        m     == CHOOSE k \in 1 .. 12 :
                    /\ MonthStarts[k] <= doy
                    /\ (k = 12 \/ doy < MonthStarts[k + 1])
    IN  [month |-> m, day |-> doy - MonthStarts[m] + 1]

\* const stats = useMemo(...): what a render shows for the phase p
stats(v, p, tz) ==
    [phase      |-> p,
     decl       |-> subsolarLatitude(p),
     seasonIdx  |-> SeasonQuadrant(v, p),
     season     |-> SeasonText(v, p),
     hemisphere |-> hemisphere(v, subsolarLatitude(p)),
     ms         |-> Timestamp(p),
     date       |-> dateLabel(p, tz)]

\* the season of the phase p as each variant's classifier gives it: the
\* SEASON_DATA entry of getSeasonIndex and the text of seasonLabel
Classifiers(p) ==
    [entry |-> SEASON_DATA[getSeasonIndex(p) + 1], label |-> seasonLabel(p)]

\* the readouts of the first render
InitProbe(v) ==
    [tz |-> 0, a |-> stats(v, InitPhase, 0), b |-> stats(v, InitPhase, 0),
     season |-> Classifiers(InitPhase)]

----------------------------------------------------------------------------
TypeOK ==
    /\ variant \in Variants
    /\ lifecycle \in {"fresh", "live", "inert", "unmounted"}
    /\ phase \in 0 .. PhaseRes
    /\ isPlaying \in BOOLEAN
    /\ orbitPhaseRef \in 0 .. PhaseRes
    /\ uiSyncRef \in 0 .. SYNC_INTERVAL(variant)
    /\ view \in [heatVisible : BOOLEAN, heatOpacity : HeatOpacityStops,
                 showClouds : BOOLEAN, showOrbit : BOOLEAN,
                 spinRate : {1, 2}]
    /\ controlsRef \in [heatVisible : BOOLEAN, heatOpacity : HeatOpacityStops,
                        showClouds : BOOLEAN, showOrbit : BOOLEAN,
                        spinRate : {1, 2}, isPlaying : BOOLEAN]
    /\ scene \in [heatEnabled : {0, 1},
                  heatOpacity : HeatOpacityStops \cup {0},
                  cloudsVisible : BOOLEAN, orbitVisible : BOOLEAN]
    /\ probe.tz \in TimeZones
    /\ frame.planetPhase \in 0 .. PhaseRes
    /\ frame.spun \in Nat
    /\ sincePush \in 0 .. SYNC_INTERVAL(variant)
    /\ pushed \in BOOLEAN
    /\ probe.a.phase \in 0 .. PhaseRes
    /\ probe.b.phase \in 0 .. PhaseRes
    /\ queuedPhase \subseteq 0 .. PhaseRes
    /\ Cardinality(queuedPhase) <= 1
    /\ effectPending \in BOOLEAN
    /\ frameId \in Nat
    /\ pendingFrames \subseteq Nat
    /\ held \subseteq Resources
    /\ cleanupInstalled \in BOOLEAN
    /\ containerSize \in Sizes
    /\ rendererSize \in Sizes \cup {"none"}
    /\ cameraAspect \in Sizes \cup {"none"}
    /\ touchedDisposed \in BOOLEAN
    /\ lastOp.arg \in Nat
    /\ playChangedBy \in {"none", "toggle", "drag", "season"}

\* the state after the first render, before any effect has run
Init ==
    /\ variant \in Variants
    /\ lifecycle = "fresh"
    /\ phase = InitPhase
    /\ isPlaying = TRUE
    /\ orbitPhaseRef = InitPhase
    /\ uiSyncRef = 0
    /\ view = InitView
    /\ controlsRef = InitControls
    /\ scene = NoScene
    /\ probe = InitProbe(variant)
    /\ frame = NoFrame
    /\ sincePush = 0
    /\ pushed = FALSE
    /\ queuedPhase = {}
    /\ effectPending = FALSE
    /\ frameId = 0
    /\ pendingFrames = {}
    /\ held = {}
    /\ cleanupInstalled = FALSE
    /\ containerSize \in Sizes
    /\ rendererSize = "none"
    /\ cameraAspect = "none"
    /\ touchedDisposed = FALSE
    /\ lastOp = Op("init", 0)
    /\ playChangedBy = "none"

----------------------------------------------------------------------------
(* React commit helpers *)

\* orbitPhaseRef.current once a pending [phase] effect has run
\* (useEffect(() => { orbitPhaseRef.current = phase; }, [phase]))
FlushedRef == IF effectPending THEN phase ELSE orbitPhaseRef

\* A discrete event handler's updates, their render and the passive effects
\* of that commit, as one step: effects still pending from an earlier commit
\* run first, then the [phase] effect runs if phase changed and the
\* snapshot effect of each state that changed runs.  setsPhase: the handler
\* calls setPhase, which supersedes a tick's setPhase queued before it.
UserCommit(newPhase, newPlaying, newView, setsPhase) ==
    /\ lifecycle \in {"live", "inert"}
    /\ phase' = newPhase
    /\ isPlaying' = newPlaying
    /\ view' = newView
    /\ orbitPhaseRef' = IF newPhase # phase THEN newPhase ELSE FlushedRef
    /\ controlsRef' =
          LET new == Snapshot(newView, newPlaying)
              old == Snapshot(view, isPlaying)
          IN  [f \in DOMAIN controlsRef |->
                 IF new[f] # old[f] THEN new[f] ELSE controlsRef[f]]
    /\ effectPending' = FALSE
    /\ queuedPhase' = IF setsPhase THEN {} ELSE queuedPhase
    /\ frame' = NoFrame
    /\ pushed' = FALSE
    /\ UNCHANGED << scene, probe, sincePush, variant,
                    lifecycle, uiSyncRef, frameId, pendingFrames,
                    held, cleanupInstalled, containerSize, rendererSize,
                    cameraAspect, touchedDisposed >>

----------------------------------------------------------------------------
(* Mount and unmount *)

\* a mount effect without its guard
MountGuardMissing(surface) == TRUE

\* if (!mountRef.current) return;
MountGuard(surface) == surface

\* The effects of the first commit (or their re-run after a simulated
\* unmount that keeps the state, as React's Strict Mode does), in source
\* order: the six snapshot effects, the mount effect, the [phase] effect.
Mount(surface) ==
    /\ lifecycle \in {"fresh", "unmounted"}
    /\ controlsRef' = Snapshot(view, isPlaying)
    /\ IF MountGuard(surface)
         THEN LET f == FreshFrame(pendingFrames, frameId)
              IN  /\ lifecycle' = "live"
                  /\ scene' = SceneAtMount(controlsRef')
                  /\ held' = held \cup Resources
                  /\ rendererSize' = containerSize
                  /\ cameraAspect' = containerSize
                  /\ frameId' = f
                  /\ pendingFrames' = pendingFrames \cup {f}
                  /\ cleanupInstalled' = TRUE
         ELSE /\ lifecycle' = "inert"
              /\ UNCHANGED << held, rendererSize, cameraAspect, frameId,
                              pendingFrames, cleanupInstalled, scene >>
    /\ orbitPhaseRef' = phase
    /\ effectPending' = FALSE
    /\ lastOp' = Op(IF surface THEN "mount" ELSE "mountNoSurface", 0)
    \* the mount effect places the planet but renders no frame
    /\ frame' = NoFrame
    /\ pushed' = FALSE
    /\ UNCHANGED << variant, phase, isPlaying, view, uiSyncRef, queuedPhase,
                    containerSize, touchedDisposed, playChangedBy, probe,
                    sincePush >>

\* requestAnimationFrame(animate) inside animate, its handle not stored
TickFrameIdStale(old, new) == old

\* frameId = requestAnimationFrame(animate), inside animate
TickFrameId(old, new) == new

\* cancelAnimationFrame(frameId)
CancelFrame(pending, id) == pending \ {id}

\* Unmount: effects still pending run, then the cleanups.  Only the mount
\* effect has a cleanup, and only if its guard let it through.
Unmount ==
    /\ lifecycle \in {"live", "inert"}
    /\ lifecycle' = "unmounted"
    /\ orbitPhaseRef' = FlushedRef
    /\ effectPending' = FALSE
    /\ queuedPhase' = {}
    /\ IF cleanupInstalled
         THEN /\ held' = held \ CleanupReleases
              /\ pendingFrames' = CancelFrame(pendingFrames, frameId)
         ELSE UNCHANGED << held, pendingFrames >>
    /\ cleanupInstalled' = FALSE
    /\ lastOp' = Op("unmount", 0)
    /\ UNCHANGED << variant, phase, isPlaying, uiSyncRef, controlsRef,
                    frameId, containerSize, rendererSize, cameraAspect,
                    touchedDisposed, playChangedBy, view, scene, probe,
                    sincePush >>
    /\ frame' = NoFrame
    /\ pushed' = FALSE

\* A window resize event: handleResize runs only while it is registered.
\* Its guard (!container) never fires: container is the non-null element
\* captured by the mount effect.
Resize(s) ==
    /\ s \in Sizes
    /\ s # containerSize
    /\ containerSize' = s
    /\ IF "resizeListener" \in held
         THEN /\ cameraAspect' = s
              /\ rendererSize' = s
              /\ touchedDisposed' = (touchedDisposed \/ "renderer" \notin held)
         ELSE UNCHANGED << cameraAspect, rendererSize, touchedDisposed >>
    /\ lastOp' = Op("resize", 0)
    /\ UNCHANGED << variant, lifecycle, phase, isPlaying, orbitPhaseRef,
                    uiSyncRef, controlsRef, queuedPhase, effectPending,
                    frameId, pendingFrames, held, cleanupInstalled,
                    playChangedBy, view, scene, probe, sincePush >>
    /\ frame' = NoFrame
    /\ pushed' = FALSE

----------------------------------------------------------------------------
(* The animation loop *)

\* function animate(), run by the browser for a pending frame request
Tick(d) ==
    /\ d \in Deltas
    /\ \E f \in pendingFrames :
         LET rest == pendingFrames \ {f}
             new  == FreshFrame(rest, frameId)
         IN  /\ pendingFrames' = rest \cup {new}
             /\ frameId' = TickFrameId(frameId, new)
    /\ orbitPhaseRef' = IF controlsRef.isPlaying
                          THEN AdvancePhase(orbitPhaseRef, d, variant)
                          ELSE orbitPhaseRef
    /\ IF ShouldPush(uiSyncRef + d, variant)
         THEN /\ uiSyncRef' = 0
              \* setPhase on an unmounted component is dropped
              /\ queuedPhase' = IF lifecycle = "live"
                                  THEN {orbitPhaseRef'} ELSE queuedPhase
              /\ pushed' = TRUE
              /\ sincePush' = 0
         ELSE /\ uiSyncRef' = uiSyncRef + d
              /\ pushed' = FALSE
              /\ sincePush' = sincePush + d
              /\ UNCHANGED queuedPhase
    /\ scene' = SceneFromSnapshot(controlsRef)
    /\ frame' = FrameOfTick(variant, orbitPhaseRef, orbitPhaseRef', d,
                            controlsRef)
    \* renderer.render(scene, camera)
    /\ touchedDisposed' = (touchedDisposed \/ "renderer" \notin held)
    /\ lastOp' = Op("tick", d)
    /\ UNCHANGED << variant, lifecycle, phase, isPlaying, controlsRef,
                    effectPending, held, cleanupInstalled, containerSize,
                    rendererSize, cameraAspect, playChangedBy, view, probe >>

\* React renders the setPhase a tick queued: effects still pending run
\* first; the [phase] effect of the new commit is left pending when phase
\* changed
RenderQueued ==
    /\ lifecycle = "live"
    /\ \E p \in queuedPhase :
         /\ phase' = p
         /\ effectPending' = (p # phase)
    /\ orbitPhaseRef' = FlushedRef
    /\ queuedPhase' = {}
    /\ lastOp' = Op("render", 0)
    /\ UNCHANGED << variant, lifecycle, isPlaying, uiSyncRef, controlsRef,
                    frameId, pendingFrames, held, cleanupInstalled,
                    containerSize, rendererSize, cameraAspect,
                    touchedDisposed, playChangedBy, view, scene, probe,
                    sincePush >>
    /\ frame' = NoFrame
    /\ pushed' = FALSE

\* useEffect(() => { orbitPhaseRef.current = phase; }, [phase])
RunEffects ==
    /\ lifecycle = "live"
    /\ effectPending
    /\ orbitPhaseRef' = phase
    /\ effectPending' = FALSE
    /\ lastOp' = Op("effects", 0)
    /\ UNCHANGED << variant, lifecycle, phase, isPlaying, uiSyncRef,
                    controlsRef, queuedPhase, frameId, pendingFrames, held,
                    cleanupInstalled, containerSize, rendererSize,
                    cameraAspect, touchedDisposed, playChangedBy, view,
                    scene, probe, sincePush >>
    /\ frame' = NoFrame
    /\ pushed' = FALSE

----------------------------------------------------------------------------
(* User actions *)

\* onClick={() => setIsPlaying(!isPlaying)} (panel),
\* onClick={() => setIsPlaying((p) => !p)} (dashboard)
TogglePlay ==
    /\ UserCommit(phase, ~isPlaying, view, FALSE)
    /\ lastOp' = Op("toggle", 0)
    /\ playChangedBy' = "toggle"

\* a slider handler that only calls setPhase(v)
SliderChangeKeepsPlaying(v) ==
    /\ v \in SliderStops
    /\ v # phase
    /\ UserCommit(v, isPlaying, view, TRUE)
    /\ lastOp' = Op("drag", v)
    /\ UNCHANGED playChangedBy

\* the time slider: setPhase(v); setIsPlaying(false).  The slider is
\* controlled by value={phase}, so a change event carries another value.
SliderChange(v) ==
    /\ v \in SliderStops
    /\ v # phase
    /\ UserCommit(v, FALSE, view, TRUE)
    /\ lastOp' = Op("drag", v)
    /\ playChangedBy' = IF isPlaying THEN "drag" ELSE playChangedBy

\* SEASON_DATA.map((s, i) => <button onClick={() => { setPhase(i * 0.25);
\* setIsPlaying(false); }}>), panel variant only
SeasonClick(i) ==
    /\ variant = "panel"
    /\ i \in 0 .. 3
    /\ UserCommit(i * QuarterRes, FALSE, view, TRUE)
    /\ lastOp' = Op("season", i)
    /\ playChangedBy' = IF isPlaying THEN "season" ELSE playChangedBy

\* <Button onClick={() => setPhase(0)}>March Equinox</Button>, dashboard
\* variant only
MarchEquinoxClick ==
    /\ variant = "dashboard"
    /\ UserCommit(0, isPlaying, view, TRUE)
    /\ lastOp' = Op("season", 0)
    /\ UNCHANGED playChangedBy

----------------------------------------------------------------------------
(* View controls *)

\* Heat map toggle: onChange(!active) -> setHeatVisible /
\* <Switch onCheckedChange={setHeatVisible}>
ToggleHeat ==
    /\ UserCommit(phase, isPlaying,
                  [view EXCEPT !.heatVisible = ~view.heatVisible], FALSE)
    /\ lastOp' = Op("heat", 0)
    /\ UNCHANGED playChangedBy

\* the heat opacity slider: setHeatOpacity(v).  The panel variant renders
\* it only while heatVisible; a controlled slider reports another value.
SetHeatOpacity(o) ==
    /\ o \in HeatOpacityStops
    /\ o # view.heatOpacity
    /\ variant = "panel" => view.heatVisible
    /\ UserCommit(phase, isPlaying, [view EXCEPT !.heatOpacity = o], FALSE)
    /\ lastOp' = Op("opacity", o)
    /\ UNCHANGED playChangedBy

\* Clouds toggle: setShowClouds
ToggleClouds ==
    /\ UserCommit(phase, isPlaying,
                  [view EXCEPT !.showClouds = ~view.showClouds], FALSE)
    /\ lastOp' = Op("clouds", 0)
    /\ UNCHANGED playChangedBy

\* Orbit path toggle: setShowOrbit
ToggleOrbit ==
    /\ UserCommit(phase, isPlaying,
                  [view EXCEPT !.showOrbit = ~view.showOrbit], FALSE)
    /\ lastOp' = Op("orbit", 0)
    /\ UNCHANGED playChangedBy

\* Fast rotation toggle, active={spinRate > 1}: (v) => setSpinRate(v ? 2 : 1)
ToggleSpin ==
    /\ UserCommit(phase, isPlaying,
                  [view EXCEPT !.spinRate = IF view.spinRate > 1 THEN 1 ELSE 2],
                  FALSE)
    /\ lastOp' = Op("spin", 0)
    /\ UNCHANGED playChangedBy

----------------------------------------------------------------------------
(* Readouts *)

\* The readouts of a render for the phase p and of a render for the phase
\* q, in a browser whose zone is tz hours from UTC
Evaluate(p, q, tz) ==
    /\ p \in 0 .. PhaseRes
    /\ q \in 0 .. PhaseRes
    /\ tz \in TimeZones
    /\ probe' = [tz |-> tz, a |-> stats(variant, p, tz),
                 b |-> stats(variant, q, tz), season |-> Classifiers(p)]
    /\ lastOp' = Op("evaluate", 0)
    /\ UNCHANGED << variant, lifecycle, phase, isPlaying, orbitPhaseRef,
                    uiSyncRef, controlsRef, queuedPhase, effectPending,
                    frameId, pendingFrames, held, cleanupInstalled,
                    containerSize, rendererSize, cameraAspect,
                    touchedDisposed, playChangedBy, view, scene,
                    sincePush >>
    /\ frame' = NoFrame
    /\ pushed' = FALSE

----------------------------------------------------------------------------
Next ==
    \/ \E surface \in BOOLEAN : Mount(surface)
    \/ Unmount
    \/ \E s \in Sizes : Resize(s)
    \/ \E d \in Deltas : Tick(d)
    \/ RenderQueued
    \/ RunEffects
    \/ TogglePlay
    \/ \E v \in SliderStops : SliderChange(v)
    \/ \E i \in 0 .. 3 : SeasonClick(i)
    \/ MarchEquinoxClick

Spec == Init /\ [][Next]_vars

\* the view controls and the loop: the phase is left to the loop alone,
\* and every frame takes the longest delta
NextControls ==
    \/ \E surface \in BOOLEAN : Mount(surface)
    \/ Unmount
    \/ Tick(MaxDelta)
    \/ ToggleHeat
    \/ \E o \in HeatOpacityStops : SetHeatOpacity(o)
    \/ ToggleClouds
    \/ ToggleOrbit
    \/ ToggleSpin

SpecControls == Init /\ [][NextControls]_vars

\* every control of the snapshot and the time slider, the loop left out
NextSnapshot ==
    \/ \E surface \in BOOLEAN : Mount(surface)
    \/ \E v \in SliderStops : SliderChange(v)
    \/ TogglePlay
    \/ ToggleHeat
    \/ \E o \in HeatOpacityStops : SetHeatOpacity(o)
    \/ ToggleClouds
    \/ ToggleOrbit
    \/ ToggleSpin

SpecSnapshot == Init /\ [][NextSnapshot]_vars

\* the loop with the play and the spin controls
NextSpin ==
    \/ \E surface \in BOOLEAN : Mount(surface)
    \/ Unmount
    \/ \E d \in Deltas : Tick(d)
    \/ RenderQueued
    \/ RunEffects
    \/ TogglePlay
    \/ ToggleSpin

SpecSpin == Init /\ [][NextSpin]_vars

\* the readouts of every pair of phases of the grid in every zone
NextEphemeris ==
    \E p, q \in 0 .. PhaseRes : \E tz \in TimeZones : Evaluate(p, q, tz)

SpecEphemeris == Init /\ [][NextEphemeris]_vars

----------------------------------------------------------------------------
(* Properties *)

DefaultState ==
    /\ phase = InitPhase
    /\ isPlaying
    /\ orbitPhaseRef = InitPhase
    /\ uiSyncRef = 0
    /\ view = InitView
    /\ controlsRef = InitControls

\* C1: in both variants a slider drag to v made while playing leaves the
\* playing flag false and the phase equal to v, and from then until the
\* play/pause button is pressed no animation tick changes orbitPhaseRef.
C1_ScrubStopsAutoplay ==
    [][ /\ (lastOp'.name = "drag" /\ isPlaying)
            => (~isPlaying' /\ phase' = lastOp'.arg
                /\ playChangedBy' = "drag")
        /\ (playChangedBy = "drag" /\ lastOp'.name = "tick")
            => orbitPhaseRef' = orbitPhaseRef
        /\ (playChangedBy = "drag" /\ playChangedBy' # "drag")
            => lastOp'.name = "toggle" ]_vars

\* C1 witness: a tick with a positive delta has run after a drag paused
\* autoplay, and the loop's phase is still the dragged value
C1_Witness ==
    /\ playChangedBy = "drag"
    /\ lastOp.name = "tick"
    /\ lastOp.arg > 0
    /\ ~isPlaying
    /\ orbitPhaseRef = phase

\* C2: after a click on a season shortcut (season i of the panel variant,
\* March Equinox of the dashboard variant) the playing flag is false and
\* the phase is i * 0.25, whatever the playing flag was before.
C2_ShortcutPauses ==
    lastOp.name = "season"
        => (~isPlaying /\ phase = lastOp.arg * QuarterRes)

\* C3 as stated: both copies of the phase are >= 0 and strictly below 1 in
\* every reachable state.
C3_PhaseBelowOne ==
    /\ phase \in 0 .. (PhaseRes - 1)
    /\ orbitPhaseRef \in 0 .. (PhaseRes - 1)

\* C3 amended: both copies of the phase are >= 0 and at most 1; the UI phase
\* becomes 1 only by a slider drag to the end stop 1, and the loop's copy is
\* 1 only while the UI phase is 1.
C3_PhaseAtMostOne ==
    /\ [](/\ phase \in 0 .. PhaseRes
          /\ orbitPhaseRef \in 0 .. PhaseRes
          /\ (orbitPhaseRef = PhaseRes => phase = PhaseRes))
    /\ [][ (phase' = PhaseRes /\ phase # PhaseRes)
               => lastOp' = Op("drag", PhaseRes) ]_vars

\* C3 witness: the slider has been dragged to its end stop 1
C3_Witness ==
    /\ lastOp = Op("drag", PhaseRes)
    /\ phase = PhaseRes
    /\ orbitPhaseRef = PhaseRes

\* C4: a tick that runs while the snapshot says playing stores
\* (prior phase + delta * rate) mod 1 in orbitPhaseRef, a value below 1, and
\* any phase it pushes to the UI is that value.
C4_TickWrapsPhase ==
    [][ (lastOp'.name = "tick" /\ controlsRef.isPlaying)
           => /\ orbitPhaseRef' =
                    (orbitPhaseRef + lastOp'.arg * ANGULAR_RATE(variant))
                        % PhaseRes
              /\ orbitPhaseRef' < PhaseRes
              /\ (uiSyncRef' = 0 /\ lastOp'.arg > 0)
                    => queuedPhase' = {orbitPhaseRef'} ]_vars

\* C4 witness: a playing tick has advanced past 1.0 and stored the
\* fractional part (the UI phase is still the pre-wrap value)
C4_Witness ==
    /\ lastOp.name = "tick"
    /\ lastOp.arg > 0
    /\ controlsRef.isPlaying
    /\ phase > PhaseRes - lastOp.arg
    /\ orbitPhaseRef < lastOp.arg

\* C5: the play state is Playing or Paused; the play/pause button flips it,
\* a slider drag or a season shortcut sets it to Paused, no tick changes it,
\* nothing else changes it, and only the button takes it back to Playing.
C5_PlayStateMachine ==
    [][ /\ isPlaying' \in BOOLEAN
        /\ lastOp'.name = "toggle" => isPlaying' = (~isPlaying)
        /\ lastOp'.name \in {"drag", "season"} => ~isPlaying'
        /\ lastOp'.name = "tick" => isPlaying' = isPlaying
        /\ isPlaying' # isPlaying
              => lastOp'.name \in {"toggle", "drag", "season"}
        /\ (~isPlaying /\ isPlaying') => lastOp'.name = "toggle" ]_vars

\* C6: once the view is unmounted no animation frame request is pending and
\* no tick has run since the unmount.
C6_LoopCancelled ==
    lifecycle = "unmounted"
        => (pendingFrames = {} /\ lastOp.name # "tick")

\* C6 witness: the cleanup ran after at least one tick had requested a new
\* frame, so the cancelled handle is not the one requested at mount
C6_Witness ==
    /\ lastOp.name = "unmount"
    /\ "renderer" \notin held
    /\ rendererSize \in Sizes
    /\ frameId > 1

\* C7: after unmount nothing that the mount effect acquired is still held.
C7_AllReleased ==
    lifecycle = "unmounted" => held = {}

\* C8: a mount without a mount element acquires nothing, requests no frame,
\* installs no cleanup, leaves renderer and camera alone, and a first mount
\* leaves every state at its default.
C8_MountWithoutSurface ==
    [][ lastOp'.name = "mountNoSurface"
          => /\ lifecycle' = "inert"
             /\ held' = held
             /\ pendingFrames' = pendingFrames
             /\ frameId' = frameId
             /\ ~cleanupInstalled'
             /\ rendererSize' = rendererSize
             /\ cameraAspect' = cameraAspect
             /\ phase' = phase
             /\ isPlaying' = isPlaying
             /\ lifecycle = "fresh"
                   => (DefaultState' /\ held' = {} /\ pendingFrames' = {}
                       /\ rendererSize' = "none") ]_vars

\* C8 witness: the first mount found no mount element
C8_Witness ==
    /\ lastOp.name = "mountNoSurface"
    /\ lifecycle = "inert"
    /\ held = {}
    /\ frameId = 0

\* C9: a resize event that arrives after the unmount cleanup changes neither
\* camera.aspect nor the renderer size and never uses the disposed renderer.
C9_ResizeAfterTeardown ==
    [][ (lifecycle = "unmounted" /\ lastOp'.name = "resize")
          => /\ cameraAspect' = cameraAspect
             /\ rendererSize' = rendererSize
             /\ ~touchedDisposed' ]_vars

\* C9 witness: a resize arrived after a live view was torn down
C9_Witness ==
    /\ lifecycle = "unmounted"
    /\ lastOp.name = "resize"
    /\ "renderer" \notin held
    /\ rendererSize \in Sizes
    /\ rendererSize # containerSize

\* C10: for every reachable UI phase, the end stops 0 and 1 and the values
\* pushed by autoplay included, the season index is 0, 1, 2 or 3 and the
\* season table has an entry for it.
C10_SeasonIndexInTable ==
    /\ getSeasonIndex(phase) \in 0 .. 3
    /\ getSeasonIndex(phase) + 1 \in DOMAIN SEASON_DATA
    /\ SEASON_DATA[getSeasonIndex(phase) + 1].name
          \in {"Vernal Equinox", "Summer Solstice", "Autumnal Equinox",
               "Winter Solstice"}

\* C10 witness: the UI phase is the slider's end stop 1
C10_Witness ==
    /\ phase = PhaseRes
    /\ getSeasonIndex(phase) = 0

\* C19: right after a slider drag to v or a season shortcut for i (v = i *
\* 0.25) the UI phase and the loop's orbitPhaseRef both equal v.
C19_ScrubReachesLoop ==
    /\ lastOp.name = "drag"
          => (phase = lastOp.arg /\ orbitPhaseRef = lastOp.arg)
    /\ lastOp.name = "season"
          => (phase = lastOp.arg * QuarterRes
              /\ orbitPhaseRef = lastOp.arg * QuarterRes)

\* C20: while the state and the snapshot both say playing, no tick, render
\* of a pushed phase or effect run lowers orbitPhaseRef, except a tick whose
\* advance passes 1 and wraps.
C20_LoopPhaseMonotone ==
    [][ (/\ isPlaying
         /\ controlsRef.isPlaying
         /\ lastOp'.name \in {"tick", "render", "effects"})
          => \/ orbitPhaseRef' >= orbitPhaseRef
             \/ /\ lastOp'.name = "tick"
                /\ orbitPhaseRef + lastOp'.arg * ANGULAR_RATE(variant)
                      >= PhaseRes ]_vars

\* C11: over the phases p, q in [0,1) the season index is one of 0, 1, 2, 3,
\* does not decrease as the phase grows, is 0 at phase 0, steps up by one
\* between a phase and the next exactly when the next is 0.25, 0.5 or 0.75,
\* and in the panel variant names Vernal Equinox, Summer Solstice, Autumnal
\* Equinox, Winter Solstice in that order.
C11_SeasonStepFunction ==
    LET a == probe.a
        b == probe.b
        breakpoints == {QuarterRes, 2 * QuarterRes, 3 * QuarterRes}
    IN  (a.phase < PhaseRes /\ b.phase < PhaseRes)
          => /\ a.seasonIdx \in 0 .. 3
             /\ a.phase = 0 => a.seasonIdx = 0
             /\ a.phase <= b.phase => a.seasonIdx <= b.seasonIdx
             /\ b.phase = a.phase + 1
                   => /\ b.phase \in breakpoints
                         => b.seasonIdx = a.seasonIdx + 1
                      /\ b.phase \notin breakpoints
                         => b.seasonIdx = a.seasonIdx
             /\ variant = "panel"
                   => a.season =
                        << "Vernal Equinox", "Summer Solstice",
                           "Autumnal Equinox", "Winter Solstice"
                        >>[a.seasonIdx + 1]

\* C11 witness: the readouts just below 0.5 and at 0.5 were computed and
\* the index steps from 1 to 2 there
C11_Witness ==
    /\ lastOp.name = "evaluate"
    /\ probe.a.phase = 2 * QuarterRes - 1
    /\ probe.b.phase = 2 * QuarterRes
    /\ probe.a.seasonIdx = 1
    /\ probe.b.seasonIdx = 2

\* C12 as stated: the boundary phases 0.25, 0.5 and 0.75 are classified
\* into the quadrants 0, 1 and 2, the lower of the two that meet there.
C12_BoundaryInLowerQuadrant ==
    \A k \in 1 .. 3 :
        probe.a.phase = k * QuarterRes => probe.a.seasonIdx = k - 1

\* C12 amended: the boundary phases 0.25, 0.5 and 0.75 are classified into
\* the quadrants 1, 2 and 3, the higher of the two that meet there, and the
\* season text shown is that quadrant's.
C12_BoundaryInHigherQuadrant ==
    \A k \in 1 .. 3 :
        probe.a.phase = k * QuarterRes
          => /\ probe.a.seasonIdx = k
             /\ probe.a.season =
                  IF variant = "panel" THEN SEASON_DATA[k + 1].name
                  ELSE SEASON_LABELS[k + 1]

\* C12 witness: the readout of phase 0.25 was computed and shows quadrant 1
C12_Witness ==
    /\ lastOp.name = "evaluate"
    /\ probe.a.phase = QuarterRes
    /\ probe.a.seasonIdx = 1

\* C13: the hemisphere text is the northern one exactly when the
\* declination is > 0, the southern one exactly when it is < 0 and the
\* equator one exactly when it is 0; at phase 0 the readout is quadrant 0
\* (Vernal Equinox), declination 0 and the equator text.
C13_HemisphereFromSign ==
    LET a == probe.a
        names == HemisphereNames(variant)
    IN  /\ a.hemisphere = names.north <=> Less(Zero, a.decl)
        /\ a.hemisphere = names.south <=> Less(a.decl, Zero)
        /\ a.hemisphere = names.equator <=> a.decl = Zero
        /\ a.phase = 0
              => /\ a.seasonIdx = 0
                 /\ variant = "panel" => a.season = "Vernal Equinox"
                 /\ a.decl = Zero
                 /\ a.hemisphere = names.equator

\* C13 witness: the readout of phase 0 was computed and shows the equator
C13_Witness ==
    /\ lastOp.name = "evaluate"
    /\ probe.a.phase = 0
    /\ probe.a.decl = Zero
    /\ probe.a.hemisphere = HemisphereNames(variant).equator

\* C14: at the phases 0 and 0.5 the declination is exactly 0 and the
\* hemisphere text is the equator one.
C14_EquinoxDeclinationZero ==
    probe.a.phase \in {0, 2 * QuarterRes}
        => /\ probe.a.decl = Zero
           /\ probe.a.hemisphere = HemisphereNames(variant).equator

\* C15 as stated: for p in [0,1) and q = (p + 0.5) mod 1 the declination at
\* p is exactly the negation of the declination at q.
C15_ExactAntisymmetry ==
    (/\ probe.a.phase < PhaseRes
     /\ probe.b.phase = (probe.a.phase + 2 * QuarterRes) % PhaseRes)
        => probe.a.decl = Neg(probe.b.decl)

\* C15 amended: for p in [0,1) and q = (p + 0.5) mod 1 the declination at p
\* is the negation of the declination at q up to floating-point rounding:
\* the two differ by at most 10^-12 degrees.
C15_AntisymmetryWithinRounding ==
    (/\ probe.a.phase < PhaseRes
     /\ probe.b.phase = (probe.a.phase + 2 * QuarterRes) % PhaseRes)
        => WithinRounding(probe.a.decl, Neg(probe.b.decl))

\* C15 witness: the declinations of 0.25 and 0.75 were computed and are
\* opposite and not zero
C15_Witness ==
    /\ lastOp.name = "evaluate"
    /\ probe.a.phase = QuarterRes
    /\ probe.b.phase = 3 * QuarterRes
    /\ Less(Zero, probe.a.decl)
    /\ probe.a.decl = Neg(probe.b.decl)

\* C16: for every phase of [0,1], the declination is at least -23.44 and at
\* most +23.44 (the double 23.44), is +23.44 at phase 0.25 and -23.44 at
\* phase 0.75.
C16_DeclinationWithinTilt ==
    /\ ~Less(AXIAL_TILT, probe.a.decl)
    /\ ~Less(probe.a.decl, Neg(AXIAL_TILT))
    /\ probe.a.phase = QuarterRes => probe.a.decl = AXIAL_TILT
    /\ probe.a.phase = 3 * QuarterRes => probe.a.decl = Neg(AXIAL_TILT)

\* C16 witness: the declination of phase 0.75 was computed and is the
\* lower end of the interval
C16_Witness ==
    /\ lastOp.name = "evaluate"
    /\ probe.a.phase = 3 * QuarterRes
    /\ probe.a.decl = Neg(AXIAL_TILT)

\* C17: the timestamp of phase p is epoch + p * (365 days), does not
\* decrease as the phase grows, lies between the epoch and the epoch plus
\* one year, and the label of phase 0 is March 20.
C17_DateLabel ==
    LET a == probe.a
        b == probe.b
    IN  /\ a.ms * PhaseRes = START_EPOCH * PhaseRes + a.phase * YEAR_MS
        /\ a.phase <= b.phase => a.ms <= b.ms
        /\ START_EPOCH <= a.ms
        /\ a.ms <= START_EPOCH + YEAR_MS
        /\ a.phase = 0 => a.date = [month |-> 3, day |-> 20]

\* C18: in the state a tick leaves, the heat-enable uniform is 1 if the
\* snapshot's heatVisible is set and 0 otherwise, the heat-opacity uniform
\* is the snapshot's heatOpacity, the cloud and orbit-line visibility are
\* the snapshot's showClouds and showOrbit, and the heat-enable uniform
\* also agrees with the heat toggle's UI state.
C18_SceneMirrorsSnapshot ==
    lastOp.name = "tick"
        => /\ scene.heatEnabled = (IF controlsRef.heatVisible THEN 1 ELSE 0)
           /\ scene.heatOpacity = controlsRef.heatOpacity
           /\ scene.cloudsVisible = controlsRef.showClouds
           /\ scene.orbitVisible = controlsRef.showOrbit
           /\ scene.heatEnabled = (IF view.heatVisible THEN 1 ELSE 0)

\* C18 witness: a tick ran after the heat map was toggled off with the
\* opacity left at its default, and clouds and orbit path were hidden
C18_Witness ==
    /\ lastOp.name = "tick"
    /\ ~view.heatVisible
    /\ view.heatOpacity = InitHeatOpacity
    /\ scene.heatEnabled = 0
    /\ scene.heatOpacity = InitHeatOpacity
    /\ ~scene.cloudsVisible
    /\ ~scene.orbitVisible

\* C21: a tick calls setPhase exactly when the frame deltas summed since
\* the previous push, its own included, strictly exceed the interval (0.06 s
\* panel, 0.08 s dashboard); a push resets the accumulator to 0, a tick
\* that does not push adds its delta to it; only a tick pushes.
C21_ThrottledPush ==
    [][ /\ lastOp'.name = "tick"
           => LET total == sincePush + lastOp'.arg
              IN  /\ pushed' <=> total > SYNC_INTERVAL(variant)
                  /\ uiSyncRef' = (IF pushed' THEN 0 ELSE total)
                  /\ pushed' => queuedPhase' = {orbitPhaseRef'}
                  /\ ~pushed' => queuedPhase' = queuedPhase
        /\ lastOp'.name # "tick" => ~pushed' ]_vars

\* C21 witness: a tick pushed while paused, with a delta that alone is
\* below the interval
C21_Witness ==
    /\ lastOp.name = "tick"
    /\ pushed
    /\ ~controlsRef.isPlaying
    /\ lastOp.arg > 0
    /\ lastOp.arg < SYNC_INTERVAL(variant)
    /\ uiSyncRef = 0

\* C22: in a frame a tick rendered, the sunDirection uniform points from
\* the planet's world position to the sun's world position.
C22_SunDirectionTowardSun ==
    frame.renders > 0
        => SameDirection(frame.sunDirection,
                         VecSub(SunWorld(variant), frame.earthWorld))

\* C23: a tick renders one frame, with the planet placed from the phase
\* the tick has just stored, and leaves exactly one frame request pending,
\* a new one; a mounted view never has more than one request pending.
C23_OneFramePerTick ==
    [][ /\ lastOp'.name = "tick"
           => /\ frame'.renders = 1
              /\ frame'.planetPhase = orbitPhaseRef'
              /\ frame'.earthWorld = EarthWorld(variant, orbitPhaseRef')
              /\ Cardinality(pendingFrames') = 1
              /\ Cardinality(pendingFrames' \ pendingFrames) = 1
        /\ lifecycle' = "live" => Cardinality(pendingFrames') <= 1 ]_vars

\* C23 witness: a playing tick with a positive delta rendered the planet at
\* the advanced phase, which the UI phase does not show yet
C23_Witness ==
    /\ lastOp.name = "tick"
    /\ lastOp.arg > 0
    /\ controlsRef.isPlaying
    /\ frame.renders = 1
    /\ frame.planetPhase = orbitPhaseRef
    /\ frame.planetPhase # phase
    /\ Cardinality(pendingFrames) = 1

\* C24: after the effects of the first commit every snapshot field equals
\* its UI state; a change of one control changes that snapshot field only
\* and leaves the phase alone; heatOpacity is within [0,1] and spinRate is
\* 1 or 2.
C24_SnapshotFollowsControls ==
    [][ LET field == [toggle |-> "isPlaying", heat |-> "heatVisible",
                      opacity |-> "heatOpacity", clouds |-> "showClouds",
                      orbit |-> "showOrbit", spin |-> "spinRate"]
        IN  /\ lifecycle' # "fresh"
               => controlsRef' =
                     [heatVisible |-> view'.heatVisible,
                      heatOpacity |-> view'.heatOpacity,
                      showClouds |-> view'.showClouds,
                      showOrbit |-> view'.showOrbit,
                      spinRate |-> view'.spinRate,
                      isPlaying |-> isPlaying']
            /\ lastOp'.name \in DOMAIN field
               => /\ controlsRef'[field[lastOp'.name]]
                        # controlsRef[field[lastOp'.name]]
                  /\ \A f \in DOMAIN controlsRef \ {field[lastOp'.name]} :
                        controlsRef'[f] = controlsRef[f]
                  /\ phase' = phase
            /\ controlsRef'.heatOpacity \in 0 .. 20
            /\ controlsRef'.spinRate \in {1, 2} ]_vars

\* C24 witness: the heat opacity slider was moved to 0 after the phase
\* had been scrubbed, the play state and the spin rate changed
C24_Witness ==
    /\ lastOp = Op("opacity", 0)
    /\ controlsRef.heatOpacity = 0
    /\ phase # InitPhase
    /\ controlsRef.isPlaying
    /\ playChangedBy = "toggle"
    /\ controlsRef.spinRate = 2

\* C25: for every phase of [0,1], the boundaries and 1 included,
\* seasonLabel(phase) is "Northern X / Southern Y" with X and Y the north
\* and south labels of SEASON_DATA[getSeasonIndex(phase)].
C25_ClassifiersAgree ==
    probe.season.label =
        "Northern " \o probe.season.entry.north
            \o " / Southern " \o probe.season.entry.south

\* C25 witness: both classifiers were applied to the boundary 0.75
C25_Witness ==
    /\ lastOp.name = "evaluate"
    /\ probe.a.phase = 3 * QuarterRes
    /\ probe.season.entry.name = "Winter Solstice"
    /\ probe.season.label = SEASON_LABELS[4]

\* C26: a tick adds delta * base rate * the snapshot's spinRate to the
\* planet's rotation, never a negative amount, whether playing or paused;
\* a tick while paused leaves the loop's phase alone, and no other step
\* rotates the planet.
C26_SpinEveryTick ==
    [][ /\ lastOp'.name = "tick"
           => /\ frame'.spun =
                    lastOp'.arg * EARTH_SPIN_RATE(variant)
                        * controlsRef.spinRate
              /\ frame'.spun >= 0
              /\ (~isPlaying /\ ~controlsRef.isPlaying)
                    => orbitPhaseRef' = orbitPhaseRef
        /\ lastOp'.name # "tick" => frame'.spun = 0 ]_vars

\* C26 witness: a tick rotated the planet at the doubled rate while paused
C26_Witness ==
    /\ lastOp.name = "tick"
    /\ lastOp.arg > 0
    /\ ~isPlaying
    /\ controlsRef.spinRate = 2
    /\ frame.spun = 2 * lastOp.arg * EARTH_SPIN_RATE(variant)

====
